---- MODULE Spec2Model ----
(***************************************************************************)
(* Vehicle tracking and speed estimation of CarSpeedDetector:              *)
(*   src/src/car.py            class Car (one tracked vehicle)             *)
(*   src/src/process_video.py  find_closest_car, annotate_with_speed and   *)
(*                             the frame loop of process_video             *)
(*                                                                         *)
(* A Car object is a record; the heap of Car objects ever constructed is   *)
(* the sequence `cars`, so the index of a record is the identity of the    *)
(* object (Python sets of Car hash by identity).  Floating point values    *)
(* are modelled by exact rationals <<numerator, denominator>>.  The video  *)
(* writer, the drawn rectangles and frame_diagnostics are outputs nothing  *)
(* reads back; of the drawing only the speed label is kept.                *)
(***************************************************************************)
EXTENDS Integers, Sequences, FiniteSets, TLC

VARIABLES
    env,          \* the values load_var read from .env (process_video.py:43-51)
    framerate,    \* cap.get(CAP_PROP_FPS) of the clip
    cars,         \* heap: every Car object constructed so far, by identity
    tracked_cars, \* the set tracked_cars of process_video (identities)
    frame_count,  \* frame_count of process_video
    pc,           \* position in process_video / in the unit harness
    remaining,    \* detections of the current frame not yet iterated
    det,          \* loop variables (box, conf, cls) of the detection loop
    closest_car,  \* local closest_car (identity), None before the first one
    car_tags,     \* car_tags of process_video: detections read so far
    label,        \* what the last annotate_with_speed call drew; in the unit
                  \* harness also the value the last query method returned
    call          \* unit harness: the last method called on the Car, <<name, args>>

vars == <<env, framerate, cars, tracked_cars, frame_count, pc, remaining, det,
          closest_car, car_tags, label, call>>

(***************************************************************************)
(* Bounds of the model.                                                    *)
(***************************************************************************)
MaxX == 3        \* pixel columns are 0..MaxX
MaxFrames == 4   \* a clip has at most MaxFrames frames
MaxDet == 2      \* the detector reports at most MaxDet boxes per frame
MaxReads == 3    \* the detector reports at most MaxReads boxes per clip

\* None where a Car is expected: no object has identity 0
NoCar == 0

\* Optional values: <<>> is None, <<v>> is the value v
None == <<>>
Some(v) == <<v>>

\* yolo_categories: car, bus, truck, motorcycle, bicycle
yolo_categories == {2, 5, 7, 3, 4}

\* Index of the right edge in a box <<x1, y1, x2, y2>> (0-based 2 in Python)
BOX_EDGE_INDEX == 3

\* Boxes [x1, y1, x2, y2] with columns in 0..MaxX (map(int, box))
Boxes == {b \in (0..MaxX) \X {0} \X (0..MaxX) \X {1} : b[1] <= b[3]}

\* conf.item() values, in tenths
Confs == {5, 9}

\* The boxes the detector reports in a clip: vehicles one or two columns
\* wide, with the right edge short of CAMERA_LEFT_SIDE, between the two
\* columns, or past CAMERA_RIGHT_SIDE
DetectorBoxes == {b \in Boxes : b[3] - b[1] \in {1, 2}}

\* What the detector reports: vehicles (class 2 = car) and one box of a
\* class that is not tracked (class 0 = person)
Detections == [box : DetectorBoxes, conf : Confs, cls : {2}] \cup
              [box : {<<0, 0, 1, 1>>}, conf : {5}, cls : {0}]

\* .env files the model is checked with; CAMERA_LEFT_SIDE < CAMERA_RIGHT_SIDE
Envs == [pixel_left : {1}, pixel_right : {2}, actual_distance : {3},
         new_car_threshold : {3}, tracker_persistence_count : {1}]

\* frame rates a clip can report (0 when the container has none)
Framerates == {0, 2}

(***************************************************************************)
(* Arithmetic.                                                             *)
(***************************************************************************)
Abs(n) == IF n < 0 THEN -n ELSE n

\* Euclid's algorithm on naturals
GCD[a, b \in Nat] == IF b = 0 THEN a ELSE GCD[b, a % b]

\* the rational n/d (d # 0) in lowest terms with a positive denominator
Fraction[n, d \in Int] ==
    LET g == GCD[Abs(n), Abs(d)]
        s == IF d < 0 THEN -1 ELSE 1
    IN  <<(s * n) \div g, (s * d) \div g>>

Rat(n, d) == Fraction[n, d]

RatMul(p, q) == Rat(p[1] * q[1], p[2] * q[2])
RatDiv(p, q) == Rat(p[1] * q[2], p[2] * q[1])

\* round a rational to an integer, ties to even (the rounding of "%.2f")
RoundHalfEven(p) ==
    LET f == p[1] \div p[2]          \* floor, p[2] > 0
        r == 2 * (p[1] - f * p[2])   \* twice the fractional part times p[2]
    IN  IF r < p[2] THEN f
        ELSE IF r > p[2] THEN f + 1
        ELSE IF f % 2 = 0 THEN f ELSE f + 1

\* int(x) for a rational: truncation toward zero
Trunc(p) == IF p[1] >= 0 THEN p[1] \div p[2] ELSE -((-p[1]) \div p[2])

(***************************************************************************)
(* class Car                                                               *)
(***************************************************************************)
Center(box) == <<Rat(box[1] + box[3], 2), Rat(box[2] + box[4], 2)>>

\* Car.__init__
Car(box, confidence, frame) ==
    [speed_timing_frames |-> <<>>,
     timing_frame_column |-> <<>>,
     initial_box         |-> box,
     last_update         |-> frame,
     current_box         |-> box,
     current_center      |-> Center(box),
     confidence          |-> confidence,
     direction           |-> 0]

\* box_similarity without the direction check
box_similarity_undirected(self, other_box) ==
    LET self_width  == self.current_box[3] - self.current_box[1]
        other_width == other_box[3] - other_box[1]
    IN  Abs(other_box[1] - self.current_box[1]) + Abs(self_width - other_width)

\* Car.box_similarity
box_similarity(self, other_box) ==
    LET self_width  == self.current_box[3] - self.current_box[1]
        other_width == other_box[3] - other_box[1]
        direction_check ==
            IF self.direction = 1 /\ other_box[1] < self.current_box[1] THEN 2
            ELSE IF self.direction = -1 /\ self.current_box[1] < other_box[1] THEN 2
            ELSE 1
    IN  (Abs(other_box[1] - self.current_box[1]) + Abs(self_width - other_width))
            * direction_check

\* update_box with a Car that stands at its initial column taken as
\* rightward
update_box_rightward(self, new_box, confidence, frame) ==
    [self EXCEPT !.current_box    = new_box,
                 !.last_update    = frame,
                 !.confidence     = confidence,
                 !.direction      = IF new_box[1] >= self.initial_box[1] THEN 1 ELSE -1,
                 !.current_center = Center(new_box)]

\* update_box with the direction taken as the sign of the displacement
update_box_sign(self, new_box, confidence, frame) ==
    [self EXCEPT !.current_box    = new_box,
                 !.last_update    = frame,
                 !.confidence     = confidence,
                 !.direction      = IF new_box[1] > self.initial_box[1] THEN 1
                                    ELSE IF new_box[1] < self.initial_box[1] THEN -1
                                    ELSE 0,
                 !.current_center = Center(new_box)]

\* Car.update_box
update_box(self, new_box, confidence, frame) ==
    [self EXCEPT !.current_box    = new_box,
                 !.last_update    = frame,
                 !.confidence     = confidence,
                 !.direction      = IF new_box[1] > self.initial_box[1] THEN 1 ELSE -1,
                 !.current_center = Center(new_box)]

\* start_tracking that restarts the timer when a start is already recorded
start_tracking_restart(self, frame_id) ==
    IF Len(self.speed_timing_frames) = 0
    THEN [self EXCEPT !.speed_timing_frames = Append(@, frame_id),
                      !.timing_frame_column = Append(@, self.current_box[BOX_EDGE_INDEX])]
    ELSE [self EXCEPT !.speed_timing_frames[1] = frame_id,
                      !.timing_frame_column[1] = self.current_box[BOX_EDGE_INDEX]]

\* start_tracking without its length test
start_tracking_unguarded(self, frame_id) ==
    [self EXCEPT !.speed_timing_frames = Append(@, frame_id),
                 !.timing_frame_column = Append(@, self.current_box[BOX_EDGE_INDEX])]

\* Car.start_tracking
start_tracking(self, frame_id) ==
    IF Len(self.speed_timing_frames) = 0
    THEN [self EXCEPT !.speed_timing_frames = Append(@, frame_id),
                      !.timing_frame_column = Append(@, self.current_box[BOX_EDGE_INDEX])]
    ELSE self

\* end_tracking that does not stop the timer in the frame that started it
end_tracking_later_frame(self, frame_id) ==
    IF Len(self.speed_timing_frames) = 1 /\ self.speed_timing_frames[1] < frame_id
    THEN [self EXCEPT !.speed_timing_frames = Append(@, frame_id),
                      !.timing_frame_column = Append(@, self.current_box[BOX_EDGE_INDEX])]
    ELSE self

\* end_tracking that tests "a start is recorded" by len >= 1
end_tracking_unguarded(self, frame_id) ==
    IF Len(self.speed_timing_frames) >= 1
    THEN [self EXCEPT !.speed_timing_frames = Append(@, frame_id),
                      !.timing_frame_column = Append(@, self.current_box[BOX_EDGE_INDEX])]
    ELSE self

\* Car.end_tracking
end_tracking(self, frame_id) ==
    IF Len(self.speed_timing_frames) = 1
    THEN [self EXCEPT !.speed_timing_frames = Append(@, frame_id),
                      !.timing_frame_column = Append(@, self.current_box[BOX_EDGE_INDEX])]
    ELSE self

\* Car.get_end_column
get_end_column(self, default_value) ==
    IF Len(self.timing_frame_column) < 2 THEN default_value
    ELSE self.timing_frame_column[2]

\* get_end_frame_count without the clamp to the recorded end frame
get_end_frame_count_running(self, default_value) == default_value

\* Car.get_end_frame_count
get_end_frame_count(self, default_value) ==
    IF Len(self.speed_timing_frames) < 2 THEN default_value
    ELSE self.speed_timing_frames[2]

\* get_tracked_distance_pixels measured to the current box, recorded end
\* column or not
get_tracked_distance_pixels_live(self) ==
    IF Len(self.timing_frame_column) = 0 THEN None
    ELSE Some(self.current_box[BOX_EDGE_INDEX] - self.timing_frame_column[1])

\* Car.get_tracked_distance_pixels
get_tracked_distance_pixels(self) ==
    IF Len(self.timing_frame_column) = 0 THEN None
    ELSE Some(get_end_column(self, self.current_box[BOX_EDGE_INDEX])
                - self.timing_frame_column[1])

\* is_expired with <= for <
is_expired_inclusive(self, frame, expiration_count) ==
    self.last_update + expiration_count <= frame

\* Car.is_expired
is_expired(self, frame, expiration_count) ==
    self.last_update + expiration_count < frame

(***************************************************************************)
(* process_video.py                                                        *)
(***************************************************************************)
\* the least box_similarity score of the Car objects of S (S non-empty)
MinScore(S, box) ==
    CHOOSE m \in {box_similarity(cars[c], box) : c \in S} :
        \A c \in S : m <= box_similarity(cars[c], box)

\* find_closest_car returning the first Car below the threshold it meets
find_closest_car_first_fit(S, box) ==
    IF S = {} THEN {NoCar}
    ELSE IF MinScore(S, box) < env.new_car_threshold
         THEN {c \in S : box_similarity(cars[c], box) < env.new_car_threshold}
         ELSE {NoCar}

\* find_closest_car with <= for <
find_closest_car_inclusive(S, box) ==
    IF S = {} THEN {NoCar}
    ELSE IF MinScore(S, box) <= env.new_car_threshold
         THEN {c \in S : box_similarity(cars[c], box) = MinScore(S, box)}
         ELSE {NoCar}

\* find_closest_car: the values it can return.  min() over a Python set
\* returns the first minimal element in the set's iteration order, which
\* is the order of the objects' addresses: any minimal Car can be the one.
find_closest_car(S, box) ==
    IF S = {} THEN {NoCar}
    ELSE IF MinScore(S, box) < env.new_car_threshold
         THEN {c \in S : box_similarity(cars[c], box) = MinScore(S, box)}
         ELSE {NoCar}

\* the factor of "miles_per_hour = meters_per_second * 2.23694"
MphPerMps == Rat(223694, 100000)

NoLabel == [kind |-> "none"]
ZeroDivisionError == [kind |-> "ZeroDivisionError"]

\* lines 90-98 of annotate_with_speed: the two divisions, the conversion
\* and the label.  A division by zero raises ZeroDivisionError.
speed_label(car, tracked_distance_pixels, meters, elapsed, rate) ==
    IF rate = 0 THEN ZeroDivisionError          \* elapsed / framerate
    ELSE
    LET seconds == Rat(elapsed, rate)
    IN  IF seconds[1] = 0 THEN ZeroDivisionError  \* meters / seconds
        ELSE
        LET meters_per_second == RatDiv(meters, seconds)
            miles_per_hour == RatMul(meters_per_second, MphPerMps)
        IN  [kind              |-> "label",
             pixel_distance    |-> tracked_distance_pixels,
             elapsed_frames    |-> elapsed,
             meters            |-> meters,
             seconds           |-> seconds,
             meters_per_second |-> meters_per_second,
             miles_per_hour    |-> miles_per_hour,
             \* f"{miles_per_hour:.2f}", in hundredths
             text              |-> RoundHalfEven(RatMul(miles_per_hour, <<100, 1>>)),
             \* where cv2.putText draws it
             org               |-> <<Trunc(car.current_center[1]),
                                     Trunc(car.current_center[2]) - 10>>]

\* annotate_with_speed without the "framerate == 0" test
annotate_with_speed_unguarded(car, frame, rate) ==
    IF Len(car.speed_timing_frames) = 0 THEN NoLabel
    ELSE
    LET end_frame == get_end_frame_count(car, frame)
        distance == get_tracked_distance_pixels(car)
    IN  IF distance = None THEN NoLabel
        ELSE IF env.pixel_right - env.pixel_left = 0 THEN ZeroDivisionError
        ELSE
        LET tracked_distance_pixels == distance[1]
            meters == Rat(env.actual_distance * tracked_distance_pixels,
                          env.pixel_right - env.pixel_left)
            elapsed == end_frame - car.speed_timing_frames[1]
        IN  IF elapsed = 0 THEN NoLabel
            ELSE speed_label(car, tracked_distance_pixels, meters, elapsed, rate)

\* annotate_with_speed: the label it draws for `car`, NoLabel when it
\* returns without drawing, ZeroDivisionError when a division raises
annotate_with_speed(car, frame, rate) ==
    IF Len(car.speed_timing_frames) = 0 THEN NoLabel
    ELSE
    LET end_frame == get_end_frame_count(car, frame)
        distance == get_tracked_distance_pixels(car)
    IN  IF distance = None THEN NoLabel
        ELSE IF env.pixel_right - env.pixel_left = 0 THEN ZeroDivisionError
        ELSE
        LET tracked_distance_pixels == distance[1]
            meters == Rat(env.actual_distance * tracked_distance_pixels,
                          env.pixel_right - env.pixel_left)
            elapsed == end_frame - car.speed_timing_frames[1]
        IN  IF elapsed = 0 \/ rate = 0 THEN NoLabel
            ELSE speed_label(car, tracked_distance_pixels, meters, elapsed, rate)

\* lines 158-164 with the two calibration columns themselves counted as
\* crossed
track_detection_inclusive(c0, box, conf, frame) ==
    LET c1 == update_box(c0, box, conf, frame)
        c2 == IF env.pixel_left <= box[3] THEN start_tracking(c1, frame) ELSE c1
    IN  IF env.pixel_right <= box[3] THEN end_tracking(c2, frame) ELSE c2

\* lines 158-164 with a detection dropped when the Car it was matched with
\* has been updated in this frame already
track_detection_claim_once(c0, box, conf, frame) ==
    IF c0.direction # 0 /\ c0.last_update = frame THEN c0
    ELSE
    LET c1 == update_box(c0, box, conf, frame)
        c2 == IF env.pixel_left < box[3] THEN start_tracking(c1, frame) ELSE c1
    IN  IF env.pixel_right < box[3] THEN end_tracking(c2, frame) ELSE c2

\* lines 158-164: the Car a detection leaves behind, from the Car c0 it was
\* matched with (or the Car just constructed for it)
track_detection(c0, box, conf, frame) ==
    LET c1 == update_box(c0, box, conf, frame)
        c2 == IF env.pixel_left < box[3] THEN start_tracking(c1, frame) ELSE c1
    IN  IF env.pixel_right < box[3] THEN end_tracking(c2, frame) ELSE c2

\* lines 180-185: the Cars the expiration sweep removes
cars_to_remove(S, frame) ==
    {c \in S : is_expired(cars[c], frame, env.tracker_persistence_count)}

Init ==
    /\ env \in Envs
    /\ framerate \in Framerates
    /\ cars = <<>>
    /\ tracked_cars = {}
    /\ frame_count = 0
    /\ pc = "read"
    /\ remaining = 0
    /\ det = None
    /\ closest_car = NoCar
    /\ car_tags = 0
    /\ label = NoLabel
    /\ call = <<>>

\* cap.read() returns a frame; the detector reports `remaining` boxes on it
ReadFrame ==
    /\ pc = "read"
    /\ frame_count < MaxFrames
    /\ frame_count' = frame_count + 1
    /\ \E n \in 0..MaxDet :
          /\ car_tags + n <= MaxReads
          /\ remaining' = n
          /\ car_tags' = car_tags + n
    /\ pc' = "detect"
    /\ UNCHANGED <<env, framerate, cars, tracked_cars, det, closest_car, label, call>>

\* cap.read() returns no frame: the loop is left
EndOfVideo ==
    /\ pc = "read"
    /\ frame_count' = frame_count + 1
    /\ pc' = "done"
    /\ UNCHANGED <<env, framerate, cars, tracked_cars, remaining, det, closest_car,
                   car_tags, label, call>>

\* one iteration of "for *box, conf, cls in yolo_results.xyxy[0]"
ProcessDetection(d) ==
    /\ pc = "detect"
    /\ remaining > 0
    /\ remaining' = remaining - 1
    /\ det' = Some(d)
    /\ IF d.cls \in yolo_categories
       THEN \E found \in find_closest_car(tracked_cars, d.box) :
              LET id == IF found = NoCar THEN Len(cars) + 1 ELSE found
                  c0 == IF found = NoCar THEN Car(d.box, d.conf, frame_count)
                                         ELSE cars[found]
              IN  \E c \in {track_detection(c0, d.box, d.conf, frame_count)} :
                     /\ cars' = [i \in DOMAIN cars \cup {id} |->
                                    IF i = id THEN c ELSE cars[i]]
                     /\ tracked_cars' = tracked_cars \cup {id}
                     /\ closest_car' = id
                     /\ label' = annotate_with_speed(c, frame_count, framerate)
       ELSE UNCHANGED <<cars, tracked_cars, closest_car, label, call>>
    /\ UNCHANGED <<env, framerate, frame_count, pc, car_tags, call>>

\* the sweep with a Car that expired two frames ago taken back into the set
Sweep_readmit ==
    /\ pc = "detect"
    /\ remaining = 0
    /\ tracked_cars' =
          (tracked_cars \ cars_to_remove(tracked_cars, frame_count))
             \cup {c \in DOMAIN cars \ tracked_cars :
                      cars[c].last_update + env.tracker_persistence_count + 2 = frame_count}
    /\ pc' = "read"
    /\ UNCHANGED <<env, framerate, cars, frame_count, remaining, det, closest_car,
                   car_tags, label, call>>

\* the sweep run only in a frame that updated a Car, as if it stood inside
\* the detection loop
Sweep_in_loop ==
    /\ pc = "detect"
    /\ remaining = 0
    /\ tracked_cars' =
          IF \E c \in tracked_cars : cars[c].last_update = frame_count
          THEN tracked_cars \ cars_to_remove(tracked_cars, frame_count)
          ELSE tracked_cars
    /\ pc' = "read"
    /\ UNCHANGED <<env, framerate, cars, frame_count, remaining, det, closest_car,
                   car_tags, label, call>>

\* lines 180-188: the expiration sweep that ends the frame
Sweep ==
    /\ pc = "detect"
    /\ remaining = 0
    /\ tracked_cars' = tracked_cars \ cars_to_remove(tracked_cars, frame_count)
    /\ pc' = "read"
    /\ UNCHANGED <<env, framerate, cars, frame_count, remaining, det, closest_car,
                   car_tags, label, call>>

Detect == \E d \in Detections : ProcessDetection(d)

Next == ReadFrame \/ EndOfVideo \/ Detect \/ Sweep

Spec == Init /\ [][Next]_vars

\* The frame loop with fairness, for a detector that reports one vehicle
\* box short of CAMERA_RIGHT_SIDE and one past it.  The loop never waits:
\* cap.read(), the detector and the sweep return, so a step is taken
\* whenever one is possible.
FairDetections == [box : {<<1, 0, 2, 1>>, <<2, 0, 3, 1>>}, conf : {9}, cls : {2}]

FairDetect == \E d \in FairDetections : ProcessDetection(d)

FairNext == ReadFrame \/ EndOfVideo \/ FairDetect \/ Sweep

FairSpec == Init /\ [][FairNext]_vars /\ WF_vars(FairNext)

(***************************************************************************)
(* Unit harness: one Car object, its methods and annotate_with_speed       *)
(* called in any order.  The harness clock frame_count supplies the frame  *)
(* numbers of the mutating calls, as the frame loop does; `label` is what  *)
(* the last call drew (NoLabel for a call that draws nothing).             *)
(***************************************************************************)
\* the boxes the harness passes: left of, at and right of each other, with
\* the right edge short of, between and past the two calibration columns
UnitBoxes == {<<0, 0, 1, 1>>, <<1, 0, 2, 1>>, <<2, 0, 3, 1>>}

InitCar ==
    /\ env \in Envs
    /\ framerate \in Framerates
    /\ \E box \in UnitBoxes, conf \in Confs :
          /\ cars = <<Car(box, conf, 0)>>
          /\ call = <<"__init__", box, conf, 0>>
    /\ tracked_cars = {}
    /\ frame_count = 0
    /\ pc = "unit"
    /\ remaining = 0
    /\ det = None
    /\ closest_car = NoCar
    /\ car_tags = 0
    /\ label = NoLabel

UnitFrame == <<env, framerate, tracked_cars, pc, remaining, det, closest_car, car_tags>>

Tick ==
    /\ pc = "unit"
    /\ frame_count < MaxFrames
    /\ frame_count' = frame_count + 1
    /\ UNCHANGED <<cars, label, call>>
    /\ UNCHANGED UnitFrame

CallUpdateBox(box, conf) ==
    /\ pc = "unit"
    /\ cars' = <<update_box(cars[1], box, conf, frame_count)>>
    /\ call' = <<"update_box", box, conf, frame_count>>
    /\ label' = NoLabel
    /\ UNCHANGED frame_count
    /\ UNCHANGED UnitFrame

CallStartTracking ==
    /\ pc = "unit"
    /\ cars' = <<start_tracking(cars[1], frame_count)>>
    /\ call' = <<"start_tracking", frame_count>>
    /\ label' = NoLabel
    /\ UNCHANGED frame_count
    /\ UNCHANGED UnitFrame

CallEndTracking ==
    /\ pc = "unit"
    /\ cars' = <<end_tracking(cars[1], frame_count)>>
    /\ call' = <<"end_tracking", frame_count>>
    /\ label' = NoLabel
    /\ UNCHANGED frame_count
    /\ UNCHANGED UnitFrame

CallAnnotate(frame) ==
    /\ pc = "unit"
    /\ label' = annotate_with_speed(cars[1], frame, framerate)
    /\ call' = <<"annotate_with_speed", frame, framerate>>
    /\ UNCHANGED <<frame_count, cars>>
    /\ UNCHANGED UnitFrame

UpdateBox == \E box \in UnitBoxes, conf \in Confs : CallUpdateBox(box, conf)

Annotate == \E frame \in 0..MaxFrames : CallAnnotate(frame)

NextCar == Tick \/ UpdateBox \/ CallStartTracking \/ CallEndTracking \/ Annotate

SpecCar == InitCar /\ [][NextCar]_vars

(***************************************************************************)
(* Unit harness for box_similarity: a Car constructed on any box, moved    *)
(* to any box by update_box, and scored against any box.                   *)
(***************************************************************************)
\* what a query method returned
Value(v) == [kind |-> "value", value |-> v]

InitSimilarity ==
    /\ env \in Envs
    /\ framerate \in Framerates
    /\ \E box \in Boxes :
          /\ cars = <<Car(box, 9, 0)>>
          /\ call = <<"__init__", box, 9, 0>>
    /\ tracked_cars = {}
    /\ frame_count = 0
    /\ pc = "unit"
    /\ remaining = 0
    /\ det = None
    /\ closest_car = NoCar
    /\ car_tags = 0
    /\ label = NoLabel

CallBoxSimilarity(other_box) ==
    /\ pc = "unit"
    /\ label' = Value(box_similarity(cars[1], other_box))
    /\ call' = <<"box_similarity", other_box>>
    /\ UNCHANGED <<frame_count, cars>>
    /\ UNCHANGED UnitFrame

SimilarityUpdateBox == \E box \in Boxes : CallUpdateBox(box, 9)

Similarity == \E other_box \in Boxes : CallBoxSimilarity(other_box)

NextSimilarity == SimilarityUpdateBox \/ Similarity

SpecSimilarity == InitSimilarity /\ [][NextSimilarity]_vars

(***************************************************************************)
(* Unit harness for one calibrated camera: a 100 pixel wide measuring      *)
(* section that is 10 meters long, a clip of 10 frames per second, a Car   *)
(* whose right edge is at column 100 or at column 200, and calls made at   *)
(* frames 0, 10, 20 and 30.                                                *)
(***************************************************************************)
ScenarioEnv == [pixel_left |-> 100, pixel_right |-> 200, actual_distance |-> 10,
                new_car_threshold |-> 50, tracker_persistence_count |-> 30]

ScenarioBoxes == {<<60, 0, 100, 1>>, <<160, 0, 200, 1>>}

ScenarioFrames == {0, 10, 20, 30}

InitScenario ==
    /\ env = ScenarioEnv
    /\ framerate = 10
    /\ \E box \in ScenarioBoxes :
          /\ cars = <<Car(box, 9, 0)>>
          /\ call = <<"__init__", box, 9, 0>>
    /\ tracked_cars = {}
    /\ frame_count = 0
    /\ pc = "unit"
    /\ remaining = 0
    /\ det = None
    /\ closest_car = NoCar
    /\ car_tags = 0
    /\ label = NoLabel

ScenarioTick ==
    /\ pc = "unit"
    /\ \E frame \in ScenarioFrames :
          /\ frame_count < frame
          /\ frame_count' = frame
    /\ UNCHANGED <<cars, label, call>>
    /\ UNCHANGED UnitFrame

ScenarioUpdateBox == \E box \in ScenarioBoxes : CallUpdateBox(box, 9)

ScenarioAnnotate == \E frame \in ScenarioFrames : CallAnnotate(frame)

NextScenario ==
    ScenarioTick \/ ScenarioUpdateBox \/ CallStartTracking \/ CallEndTracking
        \/ ScenarioAnnotate

SpecScenario == InitScenario /\ [][NextScenario]_vars

(***************************************************************************)
(* Unit harness for the functions that only read: a set of Cars as lines   *)
(* 158-164 leave them, and box_similarity, is_expired, the three getters,  *)
(* annotate_with_speed and find_closest_car called on it with any          *)
(* arguments.  `label` is the value returned (the label drawn, for         *)
(* annotate_with_speed), closest_car what find_closest_car returned.       *)
(***************************************************************************)
InitQuery ==
    /\ env \in Envs
    /\ framerate \in Framerates
    /\ cars = <<>>
    /\ tracked_cars = {}
    /\ frame_count = 0
    /\ pc = "unit"
    /\ remaining = 0
    /\ det = None
    /\ closest_car = NoCar
    /\ car_tags = 0
    /\ label = NoLabel
    /\ call = <<"set">>

QueryFrame == <<env, framerate, frame_count, pc, remaining, det, car_tags>>

\* lines 158-164 for a box that was not matched
QueryAdd(box, conf) ==
    /\ pc = "unit"
    /\ Len(cars) < MaxDet
    /\ cars' = Append(cars, track_detection(Car(box, conf, frame_count),
                                            box, conf, frame_count))
    /\ tracked_cars' = tracked_cars \cup {Len(cars) + 1}
    /\ call' = <<"add", box, conf>>
    /\ label' = NoLabel
    /\ UNCHANGED closest_car
    /\ UNCHANGED QueryFrame

QueryBoxSimilarity(c, other_box) ==
    /\ pc = "unit"
    /\ call' = <<"box_similarity", c, other_box>>
    /\ label' = Value(box_similarity(cars[c], other_box))
    /\ UNCHANGED <<cars, tracked_cars, closest_car>>
    /\ UNCHANGED QueryFrame

QueryIsExpired(c, frame) ==
    /\ pc = "unit"
    /\ call' = <<"is_expired", c, frame, env.tracker_persistence_count>>
    /\ label' = Value(is_expired(cars[c], frame, env.tracker_persistence_count))
    /\ UNCHANGED <<cars, tracked_cars, closest_car>>
    /\ UNCHANGED QueryFrame

QueryGetEndColumn(c, default_value) ==
    /\ pc = "unit"
    /\ call' = <<"get_end_column", c, default_value>>
    /\ label' = Value(get_end_column(cars[c], default_value))
    /\ UNCHANGED <<cars, tracked_cars, closest_car>>
    /\ UNCHANGED QueryFrame

QueryGetEndFrameCount(c, default_value) ==
    /\ pc = "unit"
    /\ call' = <<"get_end_frame_count", c, default_value>>
    /\ label' = Value(get_end_frame_count(cars[c], default_value))
    /\ UNCHANGED <<cars, tracked_cars, closest_car>>
    /\ UNCHANGED QueryFrame

QueryGetTrackedDistancePixels(c) ==
    /\ pc = "unit"
    /\ call' = <<"get_tracked_distance_pixels", c>>
    /\ label' = Value(get_tracked_distance_pixels(cars[c]))
    /\ UNCHANGED <<cars, tracked_cars, closest_car>>
    /\ UNCHANGED QueryFrame

\* annotate_with_speed recording the frame it clamps to as the Car's end
QueryAnnotate_stops_timer(c, frame) ==
    /\ pc = "unit"
    /\ call' = <<"annotate_with_speed", c, frame, framerate>>
    /\ label' = annotate_with_speed(cars[c], frame, framerate)
    /\ cars' = [cars EXCEPT ![c] = end_tracking(@, frame)]
    /\ UNCHANGED <<tracked_cars, closest_car>>
    /\ UNCHANGED QueryFrame

QueryAnnotate(c, frame) ==
    /\ pc = "unit"
    /\ call' = <<"annotate_with_speed", c, frame, framerate>>
    /\ label' = annotate_with_speed(cars[c], frame, framerate)
    /\ UNCHANGED <<cars, tracked_cars, closest_car>>
    /\ UNCHANGED QueryFrame

\* find_closest_car(tracked_cars, box): the function returns a Car or None
\* and has no statement that changes the set it was given
QueryFindClosestCar(box) ==
    /\ pc = "unit"
    /\ \E found \in find_closest_car(tracked_cars, box) : closest_car' = found
    /\ call' = <<"find_closest_car", box>>
    /\ label' = NoLabel
    /\ UNCHANGED <<cars, tracked_cars>>
    /\ UNCHANGED QueryFrame

Add == \E box \in UnitBoxes : QueryAdd(box, 9)

BoxSimilarity == \E c \in tracked_cars, box \in UnitBoxes : QueryBoxSimilarity(c, box)

IsExpired == \E c \in tracked_cars, frame \in 0..MaxFrames : QueryIsExpired(c, frame)

GetEndColumn == \E c \in tracked_cars, x \in 0..MaxX : QueryGetEndColumn(c, x)

GetEndFrameCount ==
    \E c \in tracked_cars, frame \in 0..MaxFrames : QueryGetEndFrameCount(c, frame)

GetTrackedDistancePixels == \E c \in tracked_cars : QueryGetTrackedDistancePixels(c)

AnnotateWithSpeed == \E c \in tracked_cars, frame \in 0..MaxFrames : QueryAnnotate(c, frame)

FindClosestCar == \E box \in UnitBoxes : QueryFindClosestCar(box)

NextQuery ==
    Add \/ BoxSimilarity \/ IsExpired \/ GetEndColumn \/ GetEndFrameCount
        \/ GetTrackedDistancePixels \/ AnnotateWithSpeed \/ FindClosestCar

SpecQuery == InitQuery /\ [][NextQuery]_vars

TypeOK ==
    /\ tracked_cars \subseteq DOMAIN cars
    /\ Len(cars) <= car_tags

(***************************************************************************)
(* Steps of the frame loop, as seen from a pair of states.                 *)
(***************************************************************************)
\* one iteration of the detection loop was executed
DetectionStep == pc = "detect" /\ remaining' = remaining - 1

\* ... for a detection of a tracked class (the body of the "if" ran)
VehicleStep == DetectionStep /\ det'[1].cls \in yolo_categories

\* the Car objects that exist, and their fields by name
Heap == DOMAIN cars
Frames(i) == cars[i].speed_timing_frames
Columns(i) == cars[i].timing_frame_column

(***************************************************************************)
(* C1.  Within one frame no Track receives more than one update_box: a     *)
(* detection is never matched with a Track that was already updated in     *)
(* the frame being processed (last_update = frame_count).                  *)
(***************************************************************************)
C1_OneUpdatePerFrame ==
    [][VehicleStep /\ closest_car' \in Heap
          => cars[closest_car'].last_update # frame_count]_vars

(***************************************************************************)
(* C2.  Original: a direction that is set (1 or -1) never becomes 0 and    *)
(* never changes sign.                                                     *)
(***************************************************************************)
C2_DirectionFixed ==
    [][\A i \in Heap :
          cars[i].direction # 0 => cars'[i].direction = cars[i].direction]_vars

(***************************************************************************)
(* C2, amended.  A direction that is set never becomes unknown again; its  *)
(* sign is recomputed by every update: rightward exactly when the updated  *)
(* x1 lies right of initial_box's x1, leftward otherwise.                  *)
(***************************************************************************)
C2_DirectionNeverUnknownAgain ==
    [][\A i \in Heap :
          /\ cars[i].direction # 0 => cars'[i].direction # 0
          /\ cars'[i].direction # 0 =>
                cars'[i].direction =
                    IF cars'[i].current_box[1] > cars'[i].initial_box[1] THEN 1 ELSE -1]_vars

\* a Track of the live set is rightward: it was leftward after the update
\* that followed its construction
C2_Witness ==
    \E i \in tracked_cars :
        /\ cars[i].direction = 1
        /\ cars[i].current_box[1] > cars[i].initial_box[1]

(***************************************************************************)
(* C3.  Original: a Track with two checkpoints has a second frame index    *)
(* strictly greater than the first.                                        *)
(***************************************************************************)
C3_CheckpointsStrictlyIncreasing ==
    \A i \in Heap : Len(Frames(i)) = 2 => Frames(i)[1] < Frames(i)[2]

(***************************************************************************)
(* C3, amended.  A Track with two checkpoints has a second frame index     *)
(* greater than or equal to the first (equal when both crossings are       *)
(* recorded in the same frame), and neither lies after its last update.    *)
(***************************************************************************)
C3_CheckpointsNonDecreasing ==
    \A i \in Heap :
        Len(Frames(i)) = 2 =>
            /\ Frames(i)[1] <= Frames(i)[2]
            /\ Frames(i)[2] <= cars[i].last_update

\* a Track first seen past CAMERA_RIGHT_SIDE: both checkpoints in one frame
C3_Witness ==
    \E i \in Heap :
        /\ Len(Frames(i)) = 2
        /\ Frames(i)[1] = Frames(i)[2]
        /\ Columns(i)[1] > env.pixel_right

(***************************************************************************)
(* C4.  The checkpoint record is append-only and bounded: the two lists    *)
(* have the same length, at most 2; no step shortens them or changes an    *)
(* entry already recorded.                                                 *)
(***************************************************************************)
C4_CheckpointsAppendOnly ==
    /\ [](\A i \in Heap :
            /\ Len(Frames(i)) = Len(Columns(i))
            /\ Len(Frames(i)) \in {0, 1, 2})
    /\ [][\A i \in Heap :
            /\ Len(Frames(i)) <= Len(cars'[i].speed_timing_frames)
            /\ \A k \in 1..Len(Frames(i)) :
                  /\ cars'[i].speed_timing_frames[k] = Frames(i)[k]
                  /\ cars'[i].timing_frame_column[k] = Columns(i)[k]]_vars

\* end_tracking was called on a Car that already had both checkpoints
C4_Witness ==
    /\ pc = "unit"
    /\ call[1] = "end_tracking"
    /\ Len(Frames(1)) = 2
    /\ Frames(1)[2] < call[2]

(***************************************************************************)
(* C5.  Expiration boundary, P = tracker_persistence_count: a Track last   *)
(* updated at frame F is in the live set as long as frame_count <= F + P,  *)
(* and after the sweep of frame c every live Track has last_update + P >=  *)
(* c (so the sweep of frame F + P + 1 removed it).                         *)
(***************************************************************************)
C5_ExpirationBoundary ==
    /\ \A i \in Heap :
          cars[i].last_update + env.tracker_persistence_count >= frame_count
              => i \in tracked_cars
    /\ pc = "read" =>
          \A i \in tracked_cars :
              cars[i].last_update + env.tracker_persistence_count >= frame_count

\* after a sweep: one Track is kept at exactly F + P, another was removed
\* at exactly F + P + 1
C5_Witness ==
    /\ pc = "read"
    /\ \E i \in tracked_cars :
          cars[i].last_update + env.tracker_persistence_count = frame_count
    /\ \E j \in Heap \ tracked_cars :
          cars[j].last_update + env.tracker_persistence_count + 1 = frame_count

(***************************************************************************)
(* C6.  Threshold gating: with a non-empty live set, a detection of a      *)
(* tracked class is matched with a Track of the live set exactly when the  *)
(* least box_similarity score over the live set is strictly below          *)
(* new_car_threshold; otherwise (a least score equal to the threshold      *)
(* included) a new Car is constructed and no existing Car changes.         *)
(***************************************************************************)
C6_ThresholdGating ==
    [][VehicleStep /\ tracked_cars # {} =>
          LET least == MinScore(tracked_cars, det'[1].box)
          IN  /\ least < env.new_car_threshold <=> closest_car' \in tracked_cars
              /\ least < env.new_car_threshold =>
                    /\ DOMAIN cars' = Heap
                    /\ box_similarity(cars[closest_car'], det'[1].box) = least
              /\ least >= env.new_car_threshold =>
                    /\ closest_car' \notin Heap
                    /\ DOMAIN cars' = Heap \cup {closest_car'}
                    /\ \A i \in Heap : cars'[i] = cars[i]]_vars

\* the detection just processed constructed a Car although a live Track,
\* untouched in this frame, scores exactly new_car_threshold for its box
C6_Witness ==
    /\ pc = "detect"
    /\ closest_car = Len(cars)
    /\ closest_car \in tracked_cars
    /\ det # None
    /\ det[1].cls \in yolo_categories
    /\ cars[closest_car].initial_box = det[1].box
    /\ cars[closest_car].current_box = det[1].box
    /\ cars[closest_car].last_update = frame_count
    /\ \E j \in tracked_cars \ {closest_car} :
          /\ cars[j].last_update < frame_count
          /\ box_similarity(cars[j], det[1].box) = env.new_car_threshold
    /\ \A j \in tracked_cars \ {closest_car} :
          /\ cars[j].last_update < frame_count
          /\ box_similarity(cars[j], det[1].box) >= env.new_car_threshold

(***************************************************************************)
(* C7.  Speed freeze: a speed estimate for a Track that already holds two  *)
(* checkpoints uses pixel_distance = column 1 - column 0 and               *)
(* elapsed_frames = frame 1 - frame 0, whatever the frame and the box the  *)
(* Track has moved to, so its value is the one fixed by the checkpoints    *)
(* (no label when the two frames are equal or the frame rate is 0).        *)
(***************************************************************************)
FrozenDistance(i) == Columns(i)[2] - Columns(i)[1]
FrozenElapsed(i) == Frames(i)[2] - Frames(i)[1]

\* actual_distance * distance / (pixel_right - pixel_left)
\*    / (elapsed / framerate) * 2.23694, as one fraction
FrozenMph(i) ==
    Rat(env.actual_distance * FrozenDistance(i) * framerate * 223694,
        (env.pixel_right - env.pixel_left) * FrozenElapsed(i) * 100000)

C7_SpeedFreeze ==
    [][\A i \in Heap :
          VehicleStep /\ closest_car' = i /\ Len(Frames(i)) = 2 =>
              /\ cars'[i].speed_timing_frames = Frames(i)
              /\ cars'[i].timing_frame_column = Columns(i)
              /\ IF FrozenElapsed(i) = 0 \/ framerate = 0
                 THEN label' = NoLabel
                 ELSE /\ label'.kind = "label"
                      /\ label'.pixel_distance = FrozenDistance(i)
                      /\ label'.elapsed_frames = FrozenElapsed(i)
                      /\ label'.miles_per_hour = FrozenMph(i)]_vars

\* a label was drawn for a Track in a frame after its second checkpoint,
\* with its right edge somewhere else than at that checkpoint
C7_Witness ==
    /\ closest_car \in Heap
    /\ Len(Frames(closest_car)) = 2
    /\ cars[closest_car].last_update = frame_count
    /\ frame_count > Frames(closest_car)[2]
    /\ cars[closest_car].current_box[3] # Columns(closest_car)[2]
    /\ label.kind = "label"
    /\ label.elapsed_frames = FrozenElapsed(closest_car)

(***************************************************************************)
(* C8.  Tracks age out during detector gaps: as long as frames are         *)
(* processed, a live Track last updated at frame F is eventually removed   *)
(* from the live set unless it is updated in a later frame; the clip can   *)
(* only end first if it ends before the sweep of frame F + P + 1.          *)
(***************************************************************************)
C8_TracksAgeOut ==
    \A i \in 1..MaxReads : \A F \in 1..MaxFrames :
        (i \in tracked_cars /\ cars[i].last_update = F)
            ~> \/ i \notin tracked_cars
               \/ cars[i].last_update > F
               \/ /\ pc = "done"
                  /\ frame_count <= F + env.tracker_persistence_count + 1

\* a Track was removed by the sweep of a frame in which no Car was updated
C8_Witness ==
    /\ pc = "read"
    /\ \E j \in Heap \ tracked_cars :
          cars[j].last_update + env.tracker_persistence_count + 1 = frame_count
    /\ \A i \in Heap : cars[i].last_update < frame_count

(***************************************************************************)
(* C9.  Checkpoint idempotence: start_tracking on a Car that has a         *)
(* checkpoint changes nothing (the first call's frame and column stay);    *)
(* end_tracking on a Car with zero or with two checkpoints changes         *)
(* nothing.                                                                *)
(***************************************************************************)
C9_CheckpointIdempotence ==
    [][/\ CallStartTracking /\ Len(Frames(1)) >= 1 => cars' = cars
       /\ CallStartTracking /\ Len(Frames(1)) = 0 =>
             /\ cars'[1].speed_timing_frames = <<frame_count>>
             /\ cars'[1].timing_frame_column = <<cars[1].current_box[3]>>
       /\ CallEndTracking /\ Len(Frames(1)) \in {0, 2} => cars' = cars]_vars

\* start_tracking was called again, in a later frame and with the right
\* edge elsewhere: the one checkpoint is still that of the first call
C9_Witness ==
    /\ pc = "unit"
    /\ call[1] = "start_tracking"
    /\ Len(Frames(1)) = 1
    /\ Frames(1)[1] < call[2]
    /\ Columns(1)[1] # cars[1].current_box[3]

(***************************************************************************)
(* C10.  annotate_with_speed is total and never divides by zero: it draws  *)
(* no label when the Car has no checkpoint, when end_frame equals the      *)
(* first checkpoint's frame, or when the frame rate is 0; in every other   *)
(* case it draws a label; it never raises ZeroDivisionError.               *)
(***************************************************************************)
C10_SpeedEstimatorTotal ==
    /\ label # ZeroDivisionError
    /\ (pc = "unit" /\ call[1] = "annotate_with_speed") =>
          LET frame == call[2]
              rate == call[3]
              end_frame == IF Len(Frames(1)) = 2 THEN Frames(1)[2] ELSE frame
              no_estimate == \/ Len(Frames(1)) = 0
                             \/ rate = 0
                             \/ end_frame - Frames(1)[1] = 0
          IN  IF no_estimate THEN label = NoLabel ELSE label.kind = "label"

\* annotate_with_speed was called with frame rate 0 for a Car whose timer
\* has run for at least one frame
C10_Witness ==
    /\ pc = "unit"
    /\ call[1] = "annotate_with_speed"
    /\ call[3] = 0
    /\ Len(Frames(1)) >= 1
    /\ call[2] > Frames(1)[1]
    /\ label = NoLabel

(***************************************************************************)
(* C11.  box_similarity(track, candidate) = (|candidate.x1 - current x1|   *)
(* + |track width - candidate width|) * factor, where factor is 2 exactly  *)
(* when the Track is rightward and the candidate lies left of it, or the   *)
(* Track is leftward and the candidate lies right of it, and 1 otherwise;  *)
(* so the score is never negative, a direction-violating candidate scores  *)
(* twice the undirected score, and the Track's own current_box scores 0.   *)
(***************************************************************************)
C11_BoxSimilarity ==
    (pc = "unit" /\ call[1] = "box_similarity") =>
        LET track      == cars[1].current_box
            candidate  == call[2]
            undirected == Abs(candidate[1] - track[1])
                            + Abs((track[3] - track[1]) - (candidate[3] - candidate[1]))
            violating  == \/ cars[1].direction = 1 /\ candidate[1] < track[1]
                          \/ cars[1].direction = -1 /\ candidate[1] > track[1]
        IN  /\ label = Value(undirected * (IF violating THEN 2 ELSE 1))
            /\ label.value >= 0
            /\ violating => label.value = 2 * undirected
            /\ ~violating => label.value = undirected
            /\ candidate = track => label.value = 0

\* a rightward Car was scored against a box left of it and of another
\* width: the score is twice the sum of the two differences
C11_Witness ==
    /\ pc = "unit"
    /\ call[1] = "box_similarity"
    /\ cars[1].direction = 1
    /\ call[2][1] < cars[1].current_box[1]
    /\ call[2][3] - call[2][1] # cars[1].current_box[3] - cars[1].current_box[1]
    /\ label.value = 2 * (cars[1].current_box[1] - call[2][1]
                           + Abs((cars[1].current_box[3] - cars[1].current_box[1])
                                   - (call[2][3] - call[2][1])))

(***************************************************************************)
(* C12.  With pixel_left = 100, pixel_right = 200, actual_distance = 10    *)
(* and a frame rate of 10, the speed estimate of a Car whose checkpoints   *)
(* are (frame 0, column 100) and (frame 20, column 200) has                *)
(* pixel_distance = 100, meters = 10, elapsed_frames = 20, seconds = 2     *)
(* and a speed of 5 meters per second, whatever the frame of the call and  *)
(* the box the Car is at.                                                  *)
(***************************************************************************)
C12_EndToEndScenario ==
    (/\ pc = "unit"
     /\ call[1] = "annotate_with_speed"
     /\ env = ScenarioEnv
     /\ call[3] = 10
     /\ Frames(1) = <<0, 20>>
     /\ Columns(1) = <<100, 200>>) =>
        /\ label.kind = "label"
        /\ label.pixel_distance = 100
        /\ label.meters = <<10, 1>>
        /\ label.elapsed_frames = 20
        /\ label.seconds = <<2, 1>>
        /\ label.meters_per_second = <<5, 1>>

\* the estimate was asked for at frame 30, ten frames after the timer was
\* stopped, with the Car back at column 100: 5 meters per second
C12_Witness ==
    /\ pc = "unit"
    /\ call = <<"annotate_with_speed", 30, 10>>
    /\ Frames(1) = <<0, 20>>
    /\ Columns(1) = <<100, 200>>
    /\ cars[1].current_box[3] = 100
    /\ cars[1].last_update = 30
    /\ label.kind = "label"
    /\ label.meters_per_second = <<5, 1>>

(***************************************************************************)
(* C13.  No detection is dropped: right after a detection of a tracked     *)
(* class is processed in frame f, the live set holds a Car (the one        *)
(* matched or the one constructed) whose current_box and confidence are    *)
(* the detection's and whose last_update is f; the step removes no Car     *)
(* from the live set and raises no error.                                  *)
(***************************************************************************)
C13_NoDetectionDropped ==
    [][VehicleStep =>
          /\ closest_car' \in tracked_cars'
          /\ cars'[closest_car'].current_box = det'[1].box
          /\ cars'[closest_car'].confidence = det'[1].conf
          /\ cars'[closest_car'].last_update = frame_count
          /\ tracked_cars \subseteq tracked_cars'
          /\ label' # ZeroDivisionError]_vars

\* the detection just processed was matched with a Car constructed in an
\* earlier frame on another box, and the Car now carries the detection
C13_Witness ==
    /\ pc = "detect"
    /\ det # None
    /\ det[1].cls \in yolo_categories
    /\ closest_car \in tracked_cars
    /\ Frames(closest_car) # <<>>
    /\ Frames(closest_car)[1] < frame_count
    /\ cars[closest_car].initial_box # det[1].box
    /\ cars[closest_car].current_box = det[1].box
    /\ cars[closest_car].confidence = det[1].conf
    /\ cars[closest_car].last_update = frame_count

(***************************************************************************)
(* C14.  Greedy minimum selection: when a detection is matched with an     *)
(* existing Car T, the score of T for the detection's box, on the Car      *)
(* states at that moment, is less than or equal to the score of every      *)
(* other Car of the live set, and so of every live Car not yet updated in  *)
(* this frame.                                                             *)
(***************************************************************************)
C14_GreedyMinimum ==
    [][VehicleStep /\ closest_car' \in Heap =>
          \A j \in tracked_cars :
              box_similarity(cars[closest_car'], det'[1].box)
                  <= box_similarity(cars[j], det'[1].box)]_vars

\* the detection just processed was matched with a Car although a second
\* live Car, not updated in this frame, scores below new_car_threshold too
C14_Witness ==
    /\ pc = "detect"
    /\ det # None
    /\ det[1].cls \in yolo_categories
    /\ closest_car \in tracked_cars
    /\ cars[closest_car].initial_box # det[1].box
    /\ cars[closest_car].current_box = det[1].box
    /\ cars[closest_car].last_update = frame_count
    /\ \E j \in tracked_cars \ {closest_car} :
          /\ cars[j].last_update < frame_count
          /\ box_similarity(cars[j], det[1].box) > 0
          /\ box_similarity(cars[j], det[1].box) < env.new_car_threshold

(***************************************************************************)
(* C15.  Calibration crossings are recorded from the updated box.  An      *)
(* update of a Car in frame f with a box of right edge x2 appends (f, x2)  *)
(* as checkpoint 0 exactly when the Car has no checkpoint and x2 >         *)
(* pixel_left, and then appends (f, x2) as checkpoint 1 exactly when the   *)
(* Car has one checkpoint (the one just appended included) and x2 >        *)
(* pixel_right; nothing else changes a checkpoint.  So checkpoint 0 is     *)
(* that of the first update with x2 > pixel_left and checkpoint 1 that of  *)
(* the first update at or after it with x2 > pixel_right; every start      *)
(* column is > pixel_left, every end column is > pixel_right, and a Car    *)
(* whose box has x2 > pixel_left has a checkpoint.                         *)
(***************************************************************************)
C15_CrossingsFromUpdatedBox ==
    /\ [](\A i \in Heap :
            /\ Len(Columns(i)) >= 1 => Columns(i)[1] > env.pixel_left
            /\ Len(Columns(i)) = 2 => Columns(i)[2] > env.pixel_right
            /\ cars[i].current_box[3] > env.pixel_left => Len(Frames(i)) >= 1
            /\ cars[i].current_box[3] > env.pixel_right => Len(Frames(i)) = 2)
    /\ [][/\ \A i \in Heap \ {closest_car'} :
             /\ cars'[i].speed_timing_frames = Frames(i)
             /\ cars'[i].timing_frame_column = Columns(i)
          /\ ~VehicleStep =>
                \A i \in Heap :
                   /\ cars'[i].speed_timing_frames = Frames(i)
                   /\ cars'[i].timing_frame_column = Columns(i)
          /\ VehicleStep =>
                LET i  == closest_car'
                    x2 == det'[1].box[3]
                    before == IF i \in Heap THEN <<Frames(i), Columns(i)>>
                              ELSE <<(<<>>), <<>>>>
                    start == IF Len(before[1]) = 0 /\ x2 > env.pixel_left
                             THEN <<Append(before[1], frame_count), Append(before[2], x2)>>
                             ELSE before
                    end   == IF Len(start[1]) = 1 /\ x2 > env.pixel_right
                             THEN <<Append(start[1], frame_count), Append(start[2], x2)>>
                             ELSE start
                IN  /\ cars'[i].speed_timing_frames = end[1]
                    /\ cars'[i].timing_frame_column = end[2]]_vars

\* a Car first seen short of CAMERA_LEFT_SIDE, with its start recorded by
\* a later update between the two columns and its end by one later still
C15_Witness ==
    \E i \in Heap :
        /\ cars[i].initial_box[3] <= env.pixel_left
        /\ Len(Frames(i)) = 2
        /\ cars[i].last_update = Frames(i)[2]
        /\ Frames(i)[1] < Frames(i)[2]
        /\ Columns(i)[1] <= env.pixel_right
        /\ Columns(i)[2] = cars[i].current_box[3]

(***************************************************************************)
(* C16.  Original: a Car removed by a sweep is never again in the live     *)
(* set, never matched and never updated; a detection that arrives later    *)
(* with the box the removed Car was at constructs a new Car, and that Car  *)
(* has no checkpoint.                                                      *)
(***************************************************************************)
C16_RemovalIsFinalNewTrackEmpty ==
    [][\A i \in Heap \ tracked_cars :
          /\ i \notin tracked_cars'
          /\ cars'[i] = cars[i]
          /\ VehicleStep => closest_car' # i
          /\ VehicleStep /\ det'[1].box = cars[i].current_box =>
                /\ closest_car' \notin Heap
                /\ cars'[closest_car'].speed_timing_frames = <<>>
                /\ cars'[closest_car'].timing_frame_column = <<>>]_vars

(***************************************************************************)
(* C16, amended.  A Car removed by a sweep is never again in the live set, *)
(* never matched and never updated.  A detection that arrives later with   *)
(* the box the removed Car was at is matched with a Car of the live set    *)
(* if one scores below new_car_threshold and constructs a new Car          *)
(* otherwise; the new Car starts from empty checkpoint lists, so the       *)
(* checkpoints it has after the detection is processed are the ones this   *)
(* detection records (none unless x2 > pixel_left).                        *)
(***************************************************************************)
C16_RemovalIsFinal ==
    [][\A i \in Heap \ tracked_cars :
          /\ i \notin tracked_cars'
          /\ cars'[i] = cars[i]
          /\ VehicleStep => closest_car' # i
          /\ VehicleStep /\ det'[1].box = cars[i].current_box =>
                LET box == det'[1].box
                    matched ==
                        /\ tracked_cars # {}
                        /\ MinScore(tracked_cars, box) < env.new_car_threshold
                IN  /\ matched <=> closest_car' \in tracked_cars
                    /\ ~matched =>
                          /\ closest_car' \notin Heap
                          /\ cars'[closest_car'] =
                                track_detection(Car(box, det'[1].conf, frame_count),
                                                box, det'[1].conf, frame_count)
                          /\ \A k \in DOMAIN cars'[closest_car'].speed_timing_frames :
                                cars'[closest_car'].speed_timing_frames[k] = frame_count
                    /\ box[3] <= env.pixel_left /\ ~matched =>
                          cars'[closest_car'].speed_timing_frames = <<>>]_vars

\* a detection with the box of a Car that a sweep removed has constructed a
\* second Car; the removed Car keeps its checkpoint of an earlier frame
C16_Witness ==
    /\ pc = "detect"
    /\ det # None
    /\ det[1].cls \in yolo_categories
    /\ closest_car = Len(cars)
    /\ closest_car \in tracked_cars
    /\ cars[closest_car].initial_box = det[1].box
    /\ cars[closest_car].last_update = frame_count
    /\ \E i \in Heap \ tracked_cars :
          /\ i < closest_car
          /\ cars[i].current_box = det[1].box
          /\ Len(Frames(i)) >= 1
          /\ Frames(i)[1] < frame_count
          /\ Frames(closest_car) = <<frame_count>>

(***************************************************************************)
(* C19.  No Car of the live set has direction 0.  A Car is added to the    *)
(* live set after update_box was applied with the box it was constructed   *)
(* on, which makes it leftward (-1); so a Car that stands at the x1 of     *)
(* its initial_box, as one with only its creating update does, scores      *)
(* every box of greater x1 with the factor 2.                              *)
(***************************************************************************)
C19_NewTrackIsLeftward ==
    /\ [](\A i \in Heap :
            /\ cars[i].direction # 0
            /\ cars[i].current_box[1] = cars[i].initial_box[1] =>
                  /\ cars[i].direction = -1
                  /\ \A b \in Boxes :
                        b[1] > cars[i].current_box[1] =>
                            box_similarity(cars[i], b) =
                                2 * (b[1] - cars[i].current_box[1]
                                      + Abs((cars[i].current_box[3] - cars[i].current_box[1])
                                              - (b[3] - b[1]))))
    /\ [][VehicleStep /\ closest_car' \notin Heap =>
             /\ closest_car' \in tracked_cars'
             /\ cars'[closest_car'].current_box = cars'[closest_car'].initial_box
             /\ cars'[closest_car'].direction = -1]_vars

\* a second Car was constructed for a box right of a Car that has only its
\* creating update: doubled, the score of that Car reaches
\* new_car_threshold, undoubled it would be below
C19_Witness ==
    /\ pc = "detect"
    /\ det # None
    /\ det[1].cls \in yolo_categories
    /\ closest_car = Len(cars)
    /\ cars[closest_car].initial_box = det[1].box
    /\ cars[closest_car].last_update = frame_count
    /\ \E j \in tracked_cars \ {closest_car} :
          /\ Frames(j) = <<>>
          /\ cars[j].current_box = cars[j].initial_box
          /\ cars[j].direction = -1
          /\ cars[j].current_box[1] < det[1].box[1]
          /\ box_similarity(cars[j], det[1].box) >= env.new_car_threshold
          /\ box_similarity(cars[j], det[1].box) < 2 * env.new_car_threshold

(***************************************************************************)
(* C20.  With pixel_left < pixel_right: a Car whose first checkpoint was   *)
(* recorded by an update with x2 > pixel_right has both checkpoints, with  *)
(* the same frame index and the same column, from that frame on: an        *)
(* update of a Car whose first column is > pixel_right records both or     *)
(* leaves them as they are; and after every update of such a Car           *)
(* annotate_with_speed draws no label for it, at any frame and any frame   *)
(* rate.                                                                   *)
(***************************************************************************)
C20_NoEstimateAfterDoubleCrossing ==
    /\ [](env.pixel_left < env.pixel_right =>
            /\ \A i \in Heap :
                  (Len(Columns(i)) >= 1 /\ Columns(i)[1] > env.pixel_right) =>
                      /\ Len(Frames(i)) = 2
                      /\ Len(Columns(i)) = 2
                      /\ Frames(i)[2] = Frames(i)[1]
                      /\ Columns(i)[2] = Columns(i)[1]
            /\ (/\ closest_car \in Heap
                /\ Len(Columns(closest_car)) >= 1
                /\ Columns(closest_car)[1] > env.pixel_right) => label = NoLabel)
    /\ [][(/\ env.pixel_left < env.pixel_right
           /\ VehicleStep
           /\ Len(cars'[closest_car'].timing_frame_column) >= 1
           /\ cars'[closest_car'].timing_frame_column[1] > env.pixel_right) =>
              /\ closest_car' \in Heap =>
                    /\ cars'[closest_car'].speed_timing_frames = Frames(closest_car')
                    /\ cars'[closest_car'].timing_frame_column = Columns(closest_car')
              /\ \A frame \in 0..(MaxFrames + 1), rate \in Framerates \cup {1, 30} :
                    annotate_with_speed(cars'[closest_car'], frame, rate) = NoLabel]_vars

\* a Car first seen past CAMERA_RIGHT_SIDE was updated again in a later
\* frame of a clip with a frame rate, and no label was drawn
C20_Witness ==
    /\ framerate # 0
    /\ pc = "detect"
    /\ closest_car \in Heap
    /\ Len(Frames(closest_car)) = 2
    /\ Columns(closest_car)[1] > env.pixel_right
    /\ Frames(closest_car)[1] = Frames(closest_car)[2]
    /\ cars[closest_car].last_update = frame_count
    /\ frame_count > Frames(closest_car)[2]
    /\ label = NoLabel

(***************************************************************************)
(* C17.  The operations that only read have no side effect: a call of      *)
(* box_similarity, is_expired, get_end_column, get_end_frame_count,        *)
(* get_tracked_distance_pixels or annotate_with_speed leaves every field   *)
(* of every Car and the live set as they were.                             *)
(***************************************************************************)
C17_ReadOnlyOperations ==
    [][(BoxSimilarity \/ IsExpired \/ GetEndColumn \/ GetEndFrameCount
           \/ GetTrackedDistancePixels \/ AnnotateWithSpeed) =>
          /\ cars' = cars
          /\ tracked_cars' = tracked_cars]_vars

\* annotate_with_speed drew a label for the first of two live Cars, at a
\* frame after its start checkpoint, and the Car's timer is still running
C17_Witness ==
    /\ pc = "unit"
    /\ call[1] = "annotate_with_speed"
    /\ tracked_cars = {1, 2}
    /\ call[2] = 1
    /\ label.kind = "label"
    /\ Frames(1) = <<0>>
    /\ label.elapsed_frames = call[3]

(***************************************************************************)
(* C18.  find_closest_car(cars, box) removes the Car it returns from the   *)
(* set it was given, and leaves the set unchanged when it returns None.    *)
(***************************************************************************)
C18_ReturnedCarRemoved ==
    [][FindClosestCar =>
          IF closest_car' # NoCar
          THEN tracked_cars' = tracked_cars \ {closest_car'}
          ELSE tracked_cars' = tracked_cars]_vars

====
